---------------------------- MODULE Spec2Model ----------------------------
(***************************************************************************)
(* The stream-to-transcript interpreter of frontend/app/simple-chat.tsx:   *)
(* handleSubmit reads an SSE response body fragment by fragment, splits    *)
(* each fragment into lines, decodes "data: " lines as JSON, classifies    *)
(* the delta content as tool-call annotation or prose and mutates the      *)
(* React state `messages` through setMessages.                             *)
(*                                                                         *)
(* Text is modelled as a sequence of one-character strings, so that        *)
(* split, startsWith, slice, includes, match, trim and JSON.parse are      *)
(* computed on characters, as the code computes them.                      *)
(***************************************************************************)
EXTENDS Integers, Sequences, FiniteSets, TLC

(***************************************************************************)
(* String primitives of JavaScript used by the handler.                    *)
(***************************************************************************)

\* With(v, F) is F(v) with v evaluated once, like `const x = v` before the
\* statements F that use x
With(v, F(_)) == CHOOSE out \in {F(once) : once \in {v}} : TRUE

\* the least and the greatest element of a non-empty set of integers
Min(S) == CHOOSE lo \in S : \A other \in S : lo <= other
Max(S) == CHOOSE hi \in S : \A other \in S : hi >= other

\* String.prototype.startsWith(p)
StartsWith(s, p) ==
    /\ Len(s) >= Len(p)
    /\ SubSeq(s, 1, Len(p)) = p

\* s.slice(n): the text from 0-based index n to the end.
Slice(s, n) == SubSeq(s, n + 1, Len(s))

\* p occurs in s at the 1-based position i
OccursAt(s, p, i) ==
    /\ i >= 1
    /\ i + Len(p) - 1 <= Len(s)
    /\ SubSeq(s, i, i + Len(p) - 1) = p

\* String.prototype.indexOf(p) as a 1-based position, 0 when p is absent
IndexOf(s, p) ==
    With({i \in 1..Len(s) : OccursAt(s, p, i)},
         LAMBDA hits : IF hits = {} THEN 0 ELSE Min(hits))

\* String.prototype.includes(p)
Includes(s, p) == IndexOf(s, p) # 0

\* String.prototype.split(sep) for a non-empty separator: the pieces between
\* successive occurrences of sep, scanning left to right; a text without sep
\* is returned as a single piece (the empty text gives one empty piece).
RECURSIVE Split(_, _)
Split(s, sep) ==
    With(IndexOf(s, sep), LAMBDA at :
        IF at = 0 THEN <<s>>
        ELSE <<SubSeq(s, 1, at - 1)>> \o
             With(SubSeq(s, at + Len(sep), Len(s)), LAMBDA rest : Split(rest, sep)))

\* Array.prototype.join(sep) on an array of texts
RECURSIVE Join(_, _)
Join(parts, sep) ==
    IF parts = <<>> THEN <<>>
    ELSE IF Len(parts) = 1 THEN parts[1]
    ELSE parts[1] \o sep \o Join(Tail(parts), sep)

\* white space removed by String.prototype.trim
WhiteSpace == {" ", "\t", "\n", "\r"}

\* String.prototype.trim()
Trim(s) ==
    With({i \in 1..Len(s) : s[i] \notin WhiteSpace},
         LAMBDA keep : IF keep = {} THEN <<>> ELSE SubSeq(s, Min(keep), Max(keep)))

(***************************************************************************)
(* JSON.parse (line 101).  A value is a tagged record; the grammar covers  *)
(* objects, arrays, strings (escapes \" \\ \/ \n \t), integers and the     *)
(* literals true, false and null.  A text outside the grammar makes        *)
(* JSON.parse throw, which is the result with ok = FALSE.                  *)
(***************************************************************************)
Undefined == [t |-> "undef"]
JNull     == [t |-> "null"]
JBool(b)  == [t |-> "bool", v |-> b]
JNum(n)   == [t |-> "num", v |-> n]
JStr(s)   == [t |-> "str", v |-> s]
JArr(a)   == [t |-> "arr", v |-> a]
JObj(m)   == [t |-> "obj", v |-> m]

ParseFail == [ok |-> FALSE, v |-> Undefined, n |-> 0]
ParseOk(val, next) == [ok |-> TRUE, v |-> val, n |-> next]

Digits == <<"0", "1", "2", "3", "4", "5", "6", "7", "8", "9">>
IsDigit(c) == \E d \in 1..Len(Digits) : Digits[d] = c
DigitValue(c) == (CHOOSE d \in 1..Len(Digits) : Digits[d] = c) - 1

\* the first position at or after i that holds no JSON white space
RECURSIVE SkipWs(_, _)
SkipWs(s, i) ==
    IF 1 <= i /\ i <= Len(s) /\ s[i] \in WhiteSpace THEN SkipWs(s, i + 1) ELSE i

\* the text of the escapes of a raw JSON string: \" \\ \/ \n \t
RECURSIVE Unescape(_)
Unescape(raw) ==
    IF raw = <<>> THEN [ok |-> TRUE, v |-> <<>>]
    ELSE IF raw[1] # "\\"
         THEN With(Unescape(Tail(raw)), LAMBDA rest :
                  [ok |-> rest.ok, v |-> <<raw[1]>> \o rest.v])
    ELSE IF Len(raw) < 2 \/ raw[2] \notin {"\"", "\\", "/", "n", "t"}
         THEN [ok |-> FALSE, v |-> <<>>]
    ELSE With(Unescape(SubSeq(raw, 3, Len(raw))), LAMBDA rest :
             [ok |-> rest.ok,
              v  |-> <<IF raw[2] = "n" THEN "\n"
                       ELSE IF raw[2] = "t" THEN "\t" ELSE raw[2]>> \o rest.v])

\* the characters of a JSON string from position i (after the opening
\* quote) up to its closing quote: the first quote that has an even number
\* of backslashes right before it
ParseString(s, i) ==
    LET Slashes(j) ==
            With({k \in i..(j - 1) : s[k] # "\\"},
                 LAMBDA stop : IF stop = {} THEN j - i ELSE j - 1 - Max(stop))
    IN  With({j \in i..Len(s) : s[j] = "\"" /\ Slashes(j) % 2 = 0}, LAMBDA closers :
          IF closers = {} THEN ParseFail
          ELSE With(Min(closers), LAMBDA close :
            With(SubSeq(s, i, close - 1), LAMBDA raw :
              IF \E k \in 1..Len(raw) : raw[k] \in {"\n", "\t", "\r"} THEN ParseFail
              ELSE IF \A k \in 1..Len(raw) : raw[k] # "\\"
                   THEN ParseOk(JStr(raw), close + 1)
              ELSE With(Unescape(raw), LAMBDA text :
                       IF text.ok THEN ParseOk(JStr(text.v), close + 1)
                       ELSE ParseFail))))

\* the digits of an integer from position i
RECURSIVE ParseDigits(_, _, _)
ParseDigits(s, i, acc) ==
    IF i <= Len(s) /\ IsDigit(s[i])
    THEN ParseDigits(s, i + 1, 10 * acc + DigitValue(s[i]))
    ELSE ParseOk(JNum(acc), i)

\* an integer: an optional minus sign, then 0 or a digit string without a
\* leading zero
ParseNumber(s, i) ==
    With(IF s[i] = "-" THEN i + 1 ELSE i, LAMBDA j :
        IF j > Len(s) \/ ~IsDigit(s[j]) THEN ParseFail
        ELSE IF s[j] = "0" THEN ParseOk(JNum(0), j + 1)
        ELSE With(ParseDigits(s, j, 0), LAMBDA r :
                 ParseOk(JNum(IF s[i] = "-" THEN 0 - r.v.v ELSE r.v.v), r.n)))

RECURSIVE ParseValue(_, _)
RECURSIVE ParseElements(_, _, _)
RECURSIVE ParseMembers(_, _, _)

\* the elements of a non-empty array, the first of them at position i
ParseElements(s, i, acc) ==
    With(ParseValue(s, i), LAMBDA r :
      With(SkipWs(s, r.n), LAMBDA k :
        IF ~r.ok \/ k > Len(s) THEN ParseFail
        ELSE IF s[k] = "," THEN ParseElements(s, k + 1, Append(acc, r.v))
        ELSE IF s[k] = "]" THEN ParseOk(JArr(Append(acc, r.v)), k + 1)
        ELSE ParseFail))

\* the members of a non-empty object, the first key at or after position i
ParseMembers(s, i, acc) ==
    With(SkipWs(s, i), LAMBDA j :
      With(IF j <= Len(s) /\ s[j] = "\"" THEN ParseString(s, j + 1) ELSE ParseFail,
           LAMBDA key :
        With(SkipWs(s, key.n), LAMBDA c :
          With(IF key.ok /\ c <= Len(s) /\ s[c] = ":" THEN ParseValue(s, c + 1)
               ELSE ParseFail,
               LAMBDA r :
            With(SkipWs(s, r.n), LAMBDA k :
              IF ~r.ok \/ k > Len(s) THEN ParseFail
              ELSE IF s[k] = ","
                   THEN ParseMembers(s, k + 1, Append(acc, [k |-> key.v.v, v |-> r.v]))
              ELSE IF s[k] = "}"
                   THEN ParseOk(JObj(Append(acc, [k |-> key.v.v, v |-> r.v])), k + 1)
              ELSE ParseFail)))))

ParseValue(s, i) ==
    With(SkipWs(s, i), LAMBDA j :
        IF j > Len(s) THEN ParseFail
        ELSE IF s[j] = "{"
             THEN With(SkipWs(s, j + 1), LAMBDA k :
                      IF k <= Len(s) /\ s[k] = "}" THEN ParseOk(JObj(<<>>), k + 1)
                      ELSE ParseMembers(s, j + 1, <<>>))
        ELSE IF s[j] = "["
             THEN With(SkipWs(s, j + 1), LAMBDA k :
                      IF k <= Len(s) /\ s[k] = "]" THEN ParseOk(JArr(<<>>), k + 1)
                      ELSE ParseElements(s, j + 1, <<>>))
        ELSE IF s[j] = "\"" THEN ParseString(s, j + 1)
        ELSE IF OccursAt(s, <<"t", "r", "u", "e">>, j) THEN ParseOk(JBool(TRUE), j + 4)
        ELSE IF OccursAt(s, <<"f", "a", "l", "s", "e">>, j) THEN ParseOk(JBool(FALSE), j + 5)
        ELSE IF OccursAt(s, <<"n", "u", "l", "l">>, j) THEN ParseOk(JNull, j + 4)
        ELSE IF s[j] = "-" \/ IsDigit(s[j]) THEN ParseNumber(s, j)
        ELSE ParseFail)

\* JSON.parse(data): one value, white space around it, nothing else
JSONParse(s) ==
    With(ParseValue(s, 1), LAMBDA r :
        IF r.ok /\ SkipWs(s, r.n) > Len(s) THEN r ELSE ParseFail)

(***************************************************************************)
(* JavaScript semantics of the values the handler touches.                 *)
(***************************************************************************)

\* truthiness of a value in `if (...)`
Truthy(x) ==
    CASE x.t = "str"  -> x.v # <<>>
      [] x.t = "num"  -> x.v # 0
      [] x.t = "bool" -> x.v
      [] x.t = "arr"  -> TRUE
      [] x.t = "obj"  -> TRUE
      [] OTHER        -> FALSE

\* x?.[k] and x?.k: the property k of x, undefined when x has none.  The
\* last member of an object with a repeated key wins; an array is indexed
\* by the decimal text of the index, a string by character.
Prop(x, k) ==
    IF x.t = "obj"
    THEN With({i \in 1..Len(x.v) : x.v[i].k = k},
              LAMBDA hits : IF hits = {} THEN Undefined ELSE x.v[Max(hits)].v)
    ELSE IF x.t \in {"arr", "str"} /\ Len(k) = 1 /\ IsDigit(k[1])
    THEN IF DigitValue(k[1]) + 1 > Len(x.v) THEN Undefined
         ELSE IF x.t = "arr" THEN x.v[DigitValue(k[1]) + 1]
         ELSE JStr(<<x.v[DigitValue(k[1]) + 1]>>)
    ELSE Undefined

\* the decimal text of a natural number
RECURSIVE NatToText(_)
NatToText(n) ==
    IF n < 10 THEN <<Digits[n + 1]>>
    ELSE NatToText(n \div 10) \o <<Digits[(n % 10) + 1]>>

\* String(x), the text `assistantMessage += content` appends for a content
\* that is not a string: an array is its elements joined by ",", with null
\* as the empty text
RECURSIVE ToText(_)
ToText(x) ==
    CASE x.t = "str"  -> x.v
      [] x.t = "num"  -> IF x.v < 0 THEN <<"-">> \o NatToText(0 - x.v) ELSE NatToText(x.v)
      [] x.t = "bool" -> IF x.v THEN <<"t", "r", "u", "e">> ELSE <<"f", "a", "l", "s", "e">>
      [] x.t = "arr"  -> Join([i \in 1..Len(x.v) |-> ToText(x.v[i])], <<",">>)
      [] x.t = "obj"  -> <<"[", "o", "b", "j", "e", "c", "t", " ",
                          "O", "b", "j", "e", "c", "t", "]">>
      [] OTHER        -> <<>>

(***************************************************************************)
(* Literals of the handler.                                                *)
(***************************************************************************)
DataPrefix   == <<"d", "a", "t", "a", ":", " ">>
DoneSentinel == <<"[", "D", "O", "N", "E", "]">>
ToolMarker   == <<"[", "C", "a", "l", "l", "i", "n", "g", " ", "t", "o", "o", "l", ":">>
ToolOpen     == ToolMarker \o <<" ">>
Dash         == <<" ", "-", " ">>
Running      == <<"R", "u", "n", "n", "i", "n", "g", ".", ".", ".">>
KeyChoices   == <<"c", "h", "o", "i", "c", "e", "s">>
KeyDelta     == <<"d", "e", "l", "t", "a">>
KeyContent   == <<"c", "o", "n", "t", "e", "n", "t">>
NewLine      == <<"\n">>

(***************************************************************************)
(* Content classifier and tool-call extractor (lines 109-117).             *)
(***************************************************************************)

\* content.match(/\[Calling tool: ([^\]]+)\]/): the leftmost position where
\* "[Calling tool: " is followed by one or more characters other than "]"
\* and then by "]"; text is capture group 1.
ToolCallMatch(content) ==
    LET CloseAt(i) ==
            With({j \in (i + Len(ToolOpen))..Len(content) : content[j] = "]"},
                 LAMBDA cl : IF cl = {} THEN 0 ELSE Min(cl))
    IN  With({i \in 1..Len(content) :
                  /\ OccursAt(content, ToolOpen, i)
                  /\ CloseAt(i) > i + Len(ToolOpen)},
             LAMBDA hits :
                 IF hits = {} THEN [found |-> FALSE, text |-> <<>>]
                 ELSE [found |-> TRUE,
                       text  |-> SubSeq(content, Min(hits) + Len(ToolOpen),
                                        CloseAt(Min(hits)) - 1)])

\* const [toolName, ...descParts] = toolCallText.split(' - ')
ToolName(text) == Split(text, Dash)[1]

\* const toolDescription = descParts.join(' - ') || 'Running...'
ToolDescription(text) ==
    With(Join(Tail(Split(text, Dash)), Dash),
         LAMBDA joined : IF joined = <<>> THEN Running ELSE joined)

(***************************************************************************)
(* Messages and the functional updates handed to setMessages.              *)
(* A Message is [role, content, toolCalls]; a ToolCall is [name,           *)
(* description].  The timestamps (new Date()) are left out: no decision of *)
(* the handler reads them.  A user or system Message has no toolCalls      *)
(* field, which is the empty list here.                                    *)
(***************************************************************************)
Message(r, c) == [role |-> r, content |-> c, toolCalls |-> <<>>]

\* the updates, as queued: each is run against the state `prev` it finds.
\* An update React has run at the call is queued with its result.
UAppend(m)     == [op |-> "append", msg |-> m, name |-> <<>>, description |-> <<>>,
                   result |-> <<>>]
UTool(n, d)    == [op |-> "tool", msg |-> Message("none", <<>>), name |-> n,
                   description |-> d, result |-> <<>>]
UContent       == [op |-> "content", msg |-> Message("none", <<>>), name |-> <<>>,
                   description |-> <<>>, result |-> <<>>]
UEager(state)  == [op |-> "eager", msg |-> Message("none", <<>>), name |-> <<>>,
                   description |-> <<>>, result |-> state]

\* `${call.name} - ${call.description}`
DedupKey(n, d) == n \o Dash \o d

\* lastMessage.toolCalls.some(call => `${call.name} - ${call.description}` === toolCallText)
IsDuplicate(calls, n, d) ==
    \E i \in 1..Len(calls) :
        DedupKey(calls[i].name, calls[i].description) = DedupKey(Trim(n), Trim(d))

\* the updater of lines 121-144: push the call onto the last Message when
\* that is an assistant Message and holds no duplicate
PushToolCall(prev, n, d) ==
    IF prev # <<>> /\ prev[Len(prev)].role = "assistant"
       /\ ~IsDuplicate(prev[Len(prev)].toolCalls, n, d)
    THEN [prev EXCEPT ![Len(prev)].toolCalls =
             Append(@, [name |-> Trim(n), description |-> Trim(d)])]
    ELSE prev

\* the updater of lines 166-173: lastMessage.content = assistantMessage,
\* where assistantMessage is the handler's variable as it is when the
\* updater runs
WriteContent(prev, text) ==
    IF prev # <<>> /\ prev[Len(prev)].role = "assistant"
    THEN [prev EXCEPT ![Len(prev)].content = text]
    ELSE prev

\* one update run against prev; text is the value of assistantMessage now
RunUpdate(u, prev, text) ==
    CASE u.op = "append"  -> Append(prev, u.msg)
      [] u.op = "tool"    -> PushToolCall(prev, u.name, u.description)
      [] u.op = "content" -> WriteContent(prev, text)
      [] u.op = "eager"   -> u.result

\* the queued updates run in order
RECURSIVE RunQueue(_, _, _)
RunQueue(q, prev, text) ==
    IF q = <<>> THEN prev
    ELSE With(RunUpdate(Head(q), prev, text), LAMBDA next :
           With(Tail(q), LAMBDA rest : RunQueue(rest, next, text)))

(***************************************************************************)
(* The body of the read loop (lines 92-181).  The loop runs without        *)
(* suspension from one `await reader.read()` to the next, so its state is  *)
(* threaded through the lines of a fragment as a record:                   *)
(*   acc    assistantMessage          flag   hasSeenToolCalls              *)
(*   msgs   the value of `messages`   queue  updates not yet rendered      *)
(*   eager  whether React runs an update handed to a component with no     *)
(*          pending update at the call (its eager-state path), keeping the *)
(*          result for the render, or queues the updater for the render    *)
(***************************************************************************)

\* setMessages(updater): React queues the updater and runs the queue at the
\* next render; an updater handed over while nothing is pending may be run
\* at the call, and then the render takes its result.  Either way the
\* updaters take effect in call order.
SetMessages(st, u) ==
    IF st.queue = <<>> /\ st.eager
    THEN [st EXCEPT !.queue = <<UEager(RunUpdate(u, st.msgs, st.acc))>>,
                    !.eager = FALSE]
    ELSE [st EXCEPT !.queue = Append(st.queue, u), !.eager = FALSE]

\* HandleText with the text of an annotated chunk written as prose as well
HandleTextKeepsRest(st, content) ==
    IF Includes(content, ToolMarker)
    THEN With(ToolCallMatch(content), LAMBDA m :
           IF m.found
           THEN With(UTool(ToolName(m.text), ToolDescription(m.text)), LAMBDA u :
                  SetMessages([SetMessages([st EXCEPT !.flag = TRUE], u)
                                  EXCEPT !.acc = st.acc \o content], UContent))
           ELSE [st EXCEPT !.flag = TRUE])
    ELSE IF st.flag /\ Trim(content) # <<>>
    THEN [SetMessages(st, UAppend(Message("assistant", content)))
             EXCEPT !.acc = content, !.flag = FALSE]
    ELSE SetMessages([st EXCEPT !.acc = st.acc \o content], UContent)

\* HandleText without the trim test of line 152: blank prose breaks too
HandleTextBreaksOnBlank(st, content) ==
    IF Includes(content, ToolMarker)
    THEN With(ToolCallMatch(content), LAMBDA m :
           IF m.found
           THEN With(UTool(ToolName(m.text), ToolDescription(m.text)), LAMBDA u :
                  SetMessages([st EXCEPT !.flag = TRUE], u))
           ELSE [st EXCEPT !.flag = TRUE])
    ELSE IF st.flag
    THEN [SetMessages(st, UAppend(Message("assistant", content)))
             EXCEPT !.acc = content, !.flag = FALSE]
    ELSE SetMessages([st EXCEPT !.acc = st.acc \o content], UContent)

\* HandleText with a segment break that keeps the text accumulated so far
HandleTextKeepsText(st, content) ==
    IF Includes(content, ToolMarker)
    THEN With(ToolCallMatch(content), LAMBDA m :
           IF m.found
           THEN With(UTool(ToolName(m.text), ToolDescription(m.text)), LAMBDA u :
                  SetMessages([st EXCEPT !.flag = TRUE], u))
           ELSE [st EXCEPT !.flag = TRUE])
    ELSE IF st.flag /\ Trim(content) # <<>>
    THEN [SetMessages(st, UAppend(Message("assistant", content)))
             EXCEPT !.acc = st.acc \o content, !.flag = FALSE]
    ELSE SetMessages([st EXCEPT !.acc = st.acc \o content], UContent)

\* lines 109-175 for a content that is a string
HandleText(st, content) ==
    IF Includes(content, ToolMarker)
    THEN With(ToolCallMatch(content), LAMBDA m :
           IF m.found
           THEN With(UTool(ToolName(m.text), ToolDescription(m.text)), LAMBDA u :
                  SetMessages([st EXCEPT !.flag = TRUE], u))
           ELSE [st EXCEPT !.flag = TRUE])
    ELSE IF st.flag /\ Trim(content) # <<>>
    THEN [SetMessages(st, UAppend(Message("assistant", content)))
             EXCEPT !.acc = content, !.flag = FALSE]
    ELSE SetMessages([st EXCEPT !.acc = st.acc \o content], UContent)

\* lines 109-175 for a truthy content that is not a string.  An array has
\* includes but neither match nor trim; a number, a boolean or an object
\* has no includes.  The TypeError of a missing method is caught at line
\* 177 and leaves what was assigned before it.
HandleOther(st, content) ==
    IF content.t = "arr"
    THEN IF \E i \in 1..Len(content.v) :
                content.v[i].t = "str" /\ content.v[i].v = ToolMarker
         THEN [st EXCEPT !.flag = TRUE]
         ELSE IF st.flag THEN st
         ELSE SetMessages([st EXCEPT !.acc = st.acc \o ToText(content)], UContent)
    ELSE st

\* parsed.choices?.[0]?.delta?.content
DeltaContent(parsed) ==
    With(Prop(parsed, KeyChoices), LAMBDA choices :
      With(Prop(choices, <<"0">>), LAMBDA choice :
        With(Prop(choice, KeyDelta), LAMBDA delta :
          Prop(delta, KeyContent))))

\* LineContent with the payload JSON.parse rejects taken as the text of the
\* event
LineContentLenient(line) ==
    IF ~StartsWith(line, DataPrefix) THEN Undefined
    ELSE With(Slice(line, Len(DataPrefix)), LAMBDA data :
           IF data = DoneSentinel THEN Undefined
           ELSE With(JSONParse(data), LAMBDA parsed :
             IF ~parsed.ok THEN JStr(data)
             ELSE IF parsed.v.t = "null" THEN Undefined
             ELSE DeltaContent(parsed.v)))

\* lines 96-103: what `parsed.choices?.[0]?.delta?.content` is for a line;
\* undefined stands for every line the loop body leaves before line 103: no
\* "data: " prefix, the sentinel, a payload JSON.parse rejects, and the
\* payload null (whose .choices throws)
LineContent(line) ==
    IF ~StartsWith(line, DataPrefix) THEN Undefined
    ELSE With(Slice(line, Len(DataPrefix)), LAMBDA data :
           IF data = DoneSentinel THEN Undefined
           ELSE With(JSONParse(data), LAMBDA parsed :
             IF ~parsed.ok THEN Undefined
             ELSE IF parsed.v.t = "null" THEN Undefined
             ELSE DeltaContent(parsed.v)))

\* the body of `for (const line of lines)` (lines 96-180)
ProcessLine(st, line) ==
    With(LineContent(line), LAMBDA value :
        IF ~Truthy(value) THEN st
        ELSE IF value.t = "str" THEN HandleText(st, value.v)
        ELSE HandleOther(st, value))

RECURSIVE ProcessLines(_, _)
ProcessLines(st, lines) ==
    IF lines = <<>> THEN st
    ELSE With(ProcessLine(st, Head(lines)), LAMBDA next :
           With(Tail(lines), LAMBDA rest : ProcessLines(next, rest)))

\* lines 92-95: const lines = chunk.split('\n')
ProcessFragment(st, chunk) ==
    With(Split(chunk, NewLine), LAMBDA lines : ProcessLines(st, lines))

(***************************************************************************)
(* TextDecoder.decode(value) (line 92), called without {stream: true}:     *)
(* every call decodes its fragment on its own.  A byte of the wire is an   *)
(* ASCII character or one of the two bytes of a two-byte UTF-8 character;  *)
(* a lead byte with no continuation byte after it in the fragment, and a   *)
(* continuation byte with no lead byte before it, each decode to U+FFFD.   *)
(***************************************************************************)
LeadByte     == "C3"
ContByte     == "A9"
TwoByteChar  == "e'"
Replacement  == "FFFD"

Decode(bytes) ==
    LET At(i) ==
            IF bytes[i] = LeadByte
            THEN IF i < Len(bytes) /\ bytes[i + 1] = ContByte THEN TwoByteChar
                 ELSE Replacement
            ELSE IF bytes[i] = ContByte
            THEN IF i > 1 /\ bytes[i - 1] = LeadByte THEN "" ELSE Replacement
            ELSE bytes[i]
    IN  SelectSeq([i \in 1..Len(bytes) |-> At(i)], LAMBDA c : c # "")

(***************************************************************************)
(* The response bodies the server side may send: lines `data: <json>`,     *)
(* each ended by a newline (the wire format the handler consumes).         *)
(***************************************************************************)
JsonHead == <<"{", "\"", "c", "h", "o", "i", "c", "e", "s", "\"", ":", "[", "{",
                "\"", "d", "e", "l", "t", "a", "\"", ":", "{", "\"", "c", "o",
                "n", "t", "e", "n", "t", "\"", ":">>
JsonTail == <<"}", "}", "]", "}">>

\* the JSON string literal of a text that needs no escapes
Quoted(text) == <<"\"">> \o text \o <<"\"">>

\* data: {"choices":[{"delta":{"content":<value>}}]}
DeltaLine(value) == DataPrefix \o JsonHead \o value \o JsonTail

TextHello  == <<"H", "e", "l", "l", "o", " ">>
TextResult == <<"R", "e", "s", "u", "l", "t", ":", " ", "X">>
TextBlank  == <<" ">>
TextUtf8   == <<"o", "k", LeadByte, ContByte>>
NoteSearch == <<"[", "C", "a", "l", "l", "i", "n", "g", " ", "t", "o", "o", "l",
                ":", " ", "S", "e", "a", "r", "c", "h", " ", "-", " ", "q",
                "u", "e", "r", "y", "i", "n", "g", " ", "c", "o", "r", "p",
                "u", "s", "]">>
NoteFetch  == <<"[", "C", "a", "l", "l", "i", "n", "g", " ", "t", "o", "o", "l",
                ":", " ", "F", "e", "t", "c", "h", "]">>
NoteLong   == <<"[", "C", "a", "l", "l", "i", "n", "g", " ", "t", "o", "o", "l",
                ":", " ", "S", "e", "a", "r", "c", "h", " ", "-", " ", "a",
                " ", "-", " ", "b", "]">>
NoteTrail  == <<"[", "C", "a", "l", "l", "i", "n", "g", " ", "t", "o", "o", "l",
                ":", " ", "S", "e", "a", "r", "c", "h", " ", "-", " ", "]">>
NoteDashA  == <<"[", "C", "a", "l", "l", "i", "n", "g", " ", "t", "o", "o", "l",
                ":", " ", "a", " ", "-", "]">>
NoteDashB  == <<"[", "C", "a", "l", "l", "i", "n", "g", " ", "t", "o", "o", "l",
                ":", " ", "a", " ", "-", " ", "-", " ", "R", "u", "n", "n",
                "i", "n", "g", ".", ".", ".", "]">>
NoteOpen   == <<"[", "C", "a", "l", "l", "i", "n", "g", " ", "t", "o", "o", "l",
                ":", " ", "S", "e", "a", "r", "c", "h">>
NoteEmpty  == <<"[", "C", "a", "l", "l", "i", "n", "g", " ", "t", "o", "o", "l",
                ":", " ", "]">>
NoteMixed  == TextHello \o NoteSearch \o TextResult

\* the lines of the wire, by name
WireLine(e) ==
    CASE e = "hello"     -> DeltaLine(Quoted(TextHello))
      [] e = "result"    -> DeltaLine(Quoted(TextResult))
      [] e = "blank"     -> DeltaLine(Quoted(TextBlank))
      [] e = "utf8"      -> DeltaLine(Quoted(TextUtf8))
      [] e = "search"    -> DeltaLine(Quoted(NoteSearch))
      [] e = "fetch"     -> DeltaLine(Quoted(NoteFetch))
      [] e = "long"      -> DeltaLine(Quoted(NoteLong))
      [] e = "trail"     -> DeltaLine(Quoted(NoteTrail))
      [] e = "dashA"     -> DeltaLine(Quoted(NoteDashA))
      [] e = "dashB"     -> DeltaLine(Quoted(NoteDashB))
      [] e = "open"      -> DeltaLine(Quoted(NoteOpen))
      [] e = "empty"     -> DeltaLine(Quoted(NoteEmpty))
      [] e = "mixed"     -> DeltaLine(Quoted(NoteMixed))
      [] e = "nocontent" -> DataPrefix \o <<"{", "\"", "c", "h", "o", "i", "c", "e", "s", "\"", ":", "[", "{",
                "\"", "d", "e", "l", "t", "a", "\"", ":", "{", "}", "}", "]",
                "}">>
      [] e = "nullc"     -> DeltaLine(<<"n", "u", "l", "l">>)
      [] e = "number"    -> DeltaLine(<<"5">>)
      [] e = "object"    -> DeltaLine(<<"{", "}">>)
      [] e = "array"     -> DeltaLine(<<"[">> \o Quoted(TextResult) \o <<"]">>)
      [] e = "arraytool" -> DeltaLine(<<"[">> \o Quoted(ToolMarker) \o <<"]">>)
      [] e = "bad"       -> DataPrefix \o <<"{", "n", "o", "t", " ", "v", "a", "l", "i", "d", " ", "j", "s",
                "o", "n">>
      [] e = "done"      -> DataPrefix \o DoneSentinel
      [] e = "comment"   -> <<":", " ", "p", "i", "n", "g">>
      [] e = "gap"       -> <<>>

\* the bytes of a body: every line followed by a newline
RECURSIVE Body(_)
Body(events) ==
    IF events = <<>> THEN <<>>
    ELSE WireLine(Head(events)) \o NewLine \o Body(Tail(events))

(***************************************************************************)
(* Bounds and inputs.                                                      *)
(***************************************************************************)

\* submissions accepted in one run of the model
MaxSubmits == 1

\* reads that return a fragment, over all the response bodies of a run
MaxReads == 3

\* the research ideas the user may type
Ideas == {<<>>, <<" ">>, <<"q">>}

\* the sizes at which the transport may cut a fragment in the middle of a
\* line; it may also cut after any newline, or deliver all that is left
ChunkSizes == {4, 42}

\* the bodies a response may carry, as the names of their lines
Streams ==
    { <<"hello", "search", "result", "done">>,
      <<"hello", "hello", "search", "result">>,
      <<"hello", "bad", "result">>,
      <<"done", "result">>,
      <<"search", "search", "fetch">>,
      <<"dashA", "dashB">>,
      <<"long", "trail">>,
      <<"open", "result">>,
      <<"empty", "hello">>,
      <<"search", "blank", "result">>,
      <<"hello", "mixed">>,
      <<"hello", "nocontent", "number", "object">>,
      <<"nullc", "array">>,
      <<"search", "array", "arraytool">>,
      <<"comment", "gap", "utf8">> }

\* the bodies whose last line lacks its newline
Unterminated == { <<"hello", "result">> }

\* the bytes of the bodies a response may carry
Bodies ==
    {Body(events) : events \in Streams} \cup
    {SubSeq(Body(events), 1, Len(Body(events)) - 1) : events \in Unterminated}

\* what a rejected fetch or read throws: an Error with a message, or a
\* value that is no Error
Thrown == { [isError |-> TRUE, message |-> <<"F", "a", "i", "l", "e", "d", " ", "t", "o", " ", "f",
          "e", "t", "c", "h">>],
            [isError |-> FALSE, message |-> <<>>] }

\* the status codes of a response that is not ok
ErrorStatuses == {500}

(***************************************************************************)
(* State.                                                                  *)
(***************************************************************************)
VARIABLES
    messages,          \* useState: the Transcript
    isStreaming,       \* useState: the streaming flag
    settings,          \* useState: domain, numHypotheses, researchIdea
    queue,             \* setMessages updaters React has not run yet
    queuedIsStreaming, \* setIsStreaming values React has not applied yet
    pc,                \* where handleSubmit is: "idle", "fetch" or "read"
    assistantMessage,  \* let assistantMessage (line 77)
    hasSeenToolCalls,  \* let hasSeenToolCalls (line 78)
    body,              \* the bytes of the response body not yet read
    submits,           \* submissions accepted so far
    reads,             \* fragments read so far
    received,          \* history: the bytes read from the current body
    linesSeen,         \* history: the lines the loop body was run on
    lastLines,         \* history: the lines of the last fragment
    lastEager,         \* history: the eager choice of the last step
    doneSeen,          \* history: a line `data: [DONE]` has been processed
    outcome            \* history: how the last run of handleSubmit ended

vars == <<messages, isStreaming, settings, queue, queuedIsStreaming, pc,
          assistantMessage, hasSeenToolCalls, body, submits, reads,
          received, linesSeen, lastLines, lastEager, doneSeen, outcome>>


DefaultDomain  == <<"A", "I", " ", "f", "o", "r", " ", "D", "r", "u", "g",
          " ", "D", "i", "s", "c", "o", "v", "e", "r", "y">>
DefaultNumber  == 3

\* lines 25-31
Init ==
    /\ messages = <<>>
    /\ isStreaming = FALSE
    /\ settings = [domain |-> DefaultDomain, numHypotheses |-> DefaultNumber,
                   researchIdea |-> <<>>]
    /\ queue = <<>>
    /\ queuedIsStreaming = <<>>
    /\ pc = "idle"
    /\ assistantMessage = <<>>
    /\ hasSeenToolCalls = FALSE
    /\ body = <<>>
    /\ submits = 0
    /\ reads = 0
    /\ received = <<>>
    /\ linesSeen = <<>>
    /\ lastLines = <<>>
    /\ lastEager = FALSE
    /\ doneSeen = FALSE
    /\ outcome = "none"

\* the state of the handler as the record the loop body threads
Handler(eager) ==
    [acc |-> assistantMessage, flag |-> hasSeenToolCalls, msgs |-> messages,
     queue |-> queue, eager |-> eager]

\* the Transcript once React has run every queued updater
Settled == RunQueue(queue, messages, assistantMessage)

\* line 49: the content of the user Message
UserContent(st) ==
    <<"R", "e", "s", "e", "a", "r", "c", "h", " ", "I", "d",
          "e", "a", ":", " ">> \o st.researchIdea
    \o <<"\n", "D", "o", "m", "a", "i", "n", ":", " ">> \o st.domain
    \o <<"\n", "N", "u", "m", "b", "e", "r", " ", "o", "f", " ",
          "H", "y", "p", "o", "t", "h", "e", "s", "e", "s",
          ":", " ">> \o NatToText(st.numHypotheses)

\* line 72: `HTTP error! status: ${response.status}`
HttpError(status) ==
    [isError |-> TRUE,
     message |-> <<"H", "T", "T", "P", " ", "e", "r", "r", "o", "r", "!",
          " ", "s", "t", "a", "t", "u", "s", ":", " ">> \o NatToText(status)]

\* line 188: the content of the system Message
ErrorContent(error) ==
    <<"E", "r", "r", "o", "r", ":", " ">> \o
    (IF error.isError THEN error.message
     ELSE <<"U", "n", "k", "n", "o", "w", "n", " ", "e", "r", "r",
          "o", "r", " ", "o", "c", "c", "u", "r", "r", "e", "d">>)

(***************************************************************************)
(* Actions.  handleSubmit suspends at `await fetch` and at every           *)
(* `await reader.read()`; what runs between two suspensions is one action. *)
(***************************************************************************)

\* line 278: the user edits the research idea (the field is disabled
\* while isStreaming)
TypeIdea(text) ==
    /\ ~isStreaming
    /\ text # settings.researchIdea
    /\ settings' = [settings EXCEPT !.researchIdea = text]
    /\ UNCHANGED <<messages, isStreaming, queue, queuedIsStreaming, pc,
                   assistantMessage, hasSeenToolCalls, body, submits, reads,
                   received, linesSeen, lastLines, lastEager, doneSeen, outcome>>

\* SubmitUpTo without the isStreaming test of line 44
SubmitWhileStreaming(limit) ==
    /\ Trim(settings.researchIdea) # <<>>
    /\ submits < limit
    /\ messages' = Append(messages, Message("user", UserContent(settings)))
    /\ isStreaming' = TRUE
    /\ pc' = "fetch"
    /\ submits' = submits + 1
    /\ assistantMessage' = <<>>
    /\ hasSeenToolCalls' = FALSE
    /\ body' = <<>>
    /\ received' = <<>>
    /\ linesSeen' = <<>>
    /\ lastLines' = <<>>
    /\ lastEager' = FALSE
    /\ doneSeen' = FALSE
    /\ outcome' = "none"
    /\ UNCHANGED <<settings, queue, queuedIsStreaming, reads>>

\* lines 42-69: a submission that passes the guard of line 44.  It runs in
\* the submit event, whose state updates React applies before the event
\* ends; the handler then waits for fetch.  The locals of an earlier run of
\* the handler are gone, and the history starts anew.
SubmitUpTo(limit) ==
    /\ Trim(settings.researchIdea) # <<>>
    /\ ~isStreaming
    /\ submits < limit
    /\ messages' = Append(messages, Message("user", UserContent(settings)))
    /\ isStreaming' = TRUE
    /\ pc' = "fetch"
    /\ submits' = submits + 1
    /\ assistantMessage' = <<>>
    /\ hasSeenToolCalls' = FALSE
    /\ body' = <<>>
    /\ received' = <<>>
    /\ linesSeen' = <<>>
    /\ lastLines' = <<>>
    /\ lastEager' = FALSE
    /\ doneSeen' = FALSE
    /\ outcome' = "none"
    /\ UNCHANGED <<settings, queue, queuedIsStreaming, reads>>

Submit == SubmitUpTo(MaxSubmits)

\* line 44: a submission with a blank idea, or while isStreaming, returns
SubmitIgnored ==
    /\ Trim(settings.researchIdea) = <<>> \/ isStreaming
    /\ UNCHANGED vars

\* React runs an updater at the call only when the component has no update
\* pending; otherwise the updater is queued
EagerChoices == IF queue = <<>> /\ queuedIsStreaming = <<>> THEN BOOLEAN ELSE {FALSE}

\* Fail without the setMessages of the catch block: no system Message
FailSilently(error, eager) ==
    /\ queuedIsStreaming' = Append(queuedIsStreaming, FALSE)
    /\ pc' = "idle"
    /\ lastEager' = eager
    /\ outcome' = "error"
    /\ UNCHANGED <<messages, isStreaming, settings, queue, assistantMessage,
                   hasSeenToolCalls, body, submits, reads, received, linesSeen,
                   lastLines, doneSeen>>

\* Fail without the finally block: the streaming flag is left as it is
FailKeepsStreaming(error, eager) ==
    \E st \in {SetMessages(Handler(eager), UAppend(Message("system", ErrorContent(error))))} :
        /\ queue' = st.queue
        /\ pc' = "idle"
        /\ lastEager' = eager
        /\ outcome' = "error"
        /\ UNCHANGED <<messages, isStreaming, settings, queuedIsStreaming,
                       assistantMessage, hasSeenToolCalls, body, submits, reads,
                       received, linesSeen, lastLines, doneSeen>>

\* lines 184-193: catch appends the system Message, finally clears the flag
Fail(error, eager) ==
    \E st \in {SetMessages(Handler(eager), UAppend(Message("system", ErrorContent(error))))} :
        /\ queue' = st.queue
        /\ queuedIsStreaming' = Append(queuedIsStreaming, FALSE)
        /\ pc' = "idle"
        /\ lastEager' = eager
        /\ outcome' = "error"
        /\ UNCHANGED <<messages, isStreaming, settings, assistantMessage, hasSeenToolCalls,
                       body, submits, reads, received, linesSeen, lastLines,
                       doneSeen>>

\* line 55: fetch rejects
FetchFails(error, eager) ==
    /\ pc = "fetch"
    /\ Fail(error, eager)

\* lines 71-73: the response is not ok
RespondNotOk(status, eager) ==
    /\ pc = "fetch"
    /\ Fail(HttpError(status), eager)

\* lines 75-80 and 191-193: an ok response without a body: no reader, the
\* handler ends
RespondNoBody ==
    /\ pc = "fetch"
    /\ queuedIsStreaming' = Append(queuedIsStreaming, FALSE)
    /\ pc' = "idle"
    /\ outcome' = "nobody"
    /\ UNCHANGED <<messages, isStreaming, settings, queue, assistantMessage,
                   hasSeenToolCalls, body, submits, reads, received, linesSeen,
                   lastLines, lastEager, doneSeen>>

\* RespondOk without the setMessages of lines 81-86: no assistant shell
RespondOkNoShell(bytes, eager) ==
    /\ pc = "fetch"
    /\ assistantMessage' = <<>>
    /\ hasSeenToolCalls' = FALSE
    /\ body' = bytes
    /\ pc' = "read"
    /\ received' = <<>>
    /\ linesSeen' = <<>>
    /\ lastLines' = <<>>
    /\ lastEager' = eager
    /\ doneSeen' = FALSE
    /\ UNCHANGED <<messages, isStreaming, settings, queue, queuedIsStreaming,
                   submits, reads, outcome>>

\* lines 75-87: an ok response with a body: the assistant shell is appended
\* and the read loop starts
RespondOk(bytes, eager) ==
    /\ pc = "fetch"
    /\ \E st \in {SetMessages([Handler(eager) EXCEPT !.acc = <<>>, !.flag = FALSE],
                              UAppend(Message("assistant", <<>>)))} :
        queue' = st.queue
    /\ assistantMessage' = <<>>
    /\ hasSeenToolCalls' = FALSE
    /\ body' = bytes
    /\ pc' = "read"
    /\ received' = <<>>
    /\ linesSeen' = <<>>
    /\ lastLines' = <<>>
    /\ lastEager' = eager
    /\ doneSeen' = FALSE
    /\ UNCHANGED <<messages, isStreaming, settings, queuedIsStreaming, submits,
                   reads, outcome>>

\* the lengths of the fragment the next read may return
CutPoints ==
    {n \in 1..Len(body) : n = Len(body) \/ body[n] = "\n" \/ n \in ChunkSizes}

\* lines 89-181: reader.read() returns a fragment of n bytes, and the loop
\* body runs on its lines
Read(n, eager) ==
    /\ pc = "read"
    /\ reads < MaxReads
    /\ n \in CutPoints
    /\ \E bytes \in {SubSeq(body, 1, n)} :
       \E chunk \in {Decode(bytes)} :
       \E lines \in {Split(chunk, NewLine)} :
       \E st \in {ProcessFragment(Handler(eager), chunk)} :
        /\ queue' = st.queue
        /\ assistantMessage' = st.acc
        /\ hasSeenToolCalls' = st.flag
        /\ received' = received \o bytes
        /\ linesSeen' = linesSeen \o lines
        /\ lastLines' = lines
        /\ doneSeen' = (doneSeen \/ \E i \in 1..Len(lines) :
                                        lines[i] = DataPrefix \o DoneSentinel)
    /\ body' = SubSeq(body, n + 1, Len(body))
    /\ reads' = reads + 1
    /\ lastEager' = eager
    /\ UNCHANGED <<messages, isStreaming, settings, queuedIsStreaming, pc,
                   submits, outcome>>

\* lines 89-90 and 191-193: reader.read() reports done, the loop is left
ReadDone ==
    /\ pc = "read"
    /\ body = <<>>
    /\ queuedIsStreaming' = Append(queuedIsStreaming, FALSE)
    /\ pc' = "idle"
    /\ outcome' = "done"
    /\ UNCHANGED <<messages, isStreaming, settings, queue, assistantMessage,
                   hasSeenToolCalls, body, submits, reads, received, linesSeen,
                   lastLines, lastEager, doneSeen>>

\* line 89: reader.read() rejects, with bytes of the body left or not
ReadFails(error, eager) ==
    /\ pc = "read"
    /\ Fail(error, eager)

\* React renders: the queued updaters run in order against `messages`, each
\* reading assistantMessage as it is now, and the queued flag is applied
Render ==
    /\ queue # <<>> \/ queuedIsStreaming # <<>>
    /\ messages' = Settled
    /\ isStreaming' = IF queuedIsStreaming = <<>> THEN isStreaming
                      ELSE queuedIsStreaming[Len(queuedIsStreaming)]
    /\ queue' = <<>>
    /\ queuedIsStreaming' = <<>>
    /\ UNCHANGED <<settings, pc, assistantMessage, hasSeenToolCalls, body,
                   submits, reads, received, linesSeen, lastLines, lastEager,
                   doneSeen, outcome>>

\* Clear with the button rendered whatever isStreaming is
ClearWhileStreaming ==
    /\ Len(messages) > 0
    /\ messages' = <<>>
    /\ settings' = [settings EXCEPT !.researchIdea = <<>>]
    /\ UNCHANGED <<isStreaming, queue, queuedIsStreaming, pc, assistantMessage,
                   hasSeenToolCalls, body, submits, reads, received, linesSeen,
                   lastLines, lastEager, doneSeen, outcome>>

\* lines 196-199 and 309-317: the Clear button, rendered when the Transcript
\* is not empty and isStreaming is false
Clear ==
    /\ Len(messages) > 0
    /\ ~isStreaming
    /\ messages' = <<>>
    /\ settings' = [settings EXCEPT !.researchIdea = <<>>]
    /\ UNCHANGED <<isStreaming, queue, queuedIsStreaming, pc, assistantMessage,
                   hasSeenToolCalls, body, submits, reads, received, linesSeen,
                   lastLines, lastEager, doneSeen, outcome>>

\* the steps of the user, of the handler and of React, an accepted
\* submission and the arrival of an ok response with a body aside
Step ==
    \/ \E text \in Ideas : TypeIdea(text)
    \/ SubmitIgnored
    \/ \E error \in Thrown, eager \in EagerChoices : FetchFails(error, eager)
    \/ \E status \in ErrorStatuses, eager \in EagerChoices : RespondNotOk(status, eager)
    \/ RespondNoBody
    \/ \E n \in CutPoints, eager \in EagerChoices : Read(n, eager)
    \/ ReadDone
    \/ \E error \in Thrown, eager \in EagerChoices : ReadFails(error, eager)
    \/ Render
    \/ Clear

Next ==
    \/ Step
    \/ Submit
    \/ \E bytes \in Bodies, eager \in EagerChoices : RespondOk(bytes, eager)

Spec == Init /\ [][Next]_vars

\* the same program with a server that sends one of two bodies: prose, a
\* malformed line, prose; and prose, a tool-call annotation
FocusBodies ==
    { Body(<<"hello", "bad", "result">>), Body(<<"hello", "search">>) }

FocusNext ==
    \/ Step
    \/ Submit
    \/ \E bytes \in FocusBodies, eager \in EagerChoices : RespondOk(bytes, eager)

FocusSpec == Init /\ [][FocusNext]_vars

\* submissions accepted in one run of a session
MaxSessions == 2

\* the same program in a session of several submissions, with a server that
\* sends one body: a single line of prose
SessionBodies == { Body(<<"hello">>) }

SessionNext ==
    \/ Step
    \/ SubmitUpTo(MaxSessions)
    \/ \E bytes \in SessionBodies, eager \in EagerChoices : RespondOk(bytes, eager)

SessionSpec == Init /\ [][SessionNext]_vars

\* the same program with a server that sends one body: a tool-call
\* annotation, blank prose, prose
SegmentBodies == { Body(<<"search", "blank", "result">>) }

SegmentNext ==
    \/ Step
    \/ Submit
    \/ \E bytes \in SegmentBodies, eager \in EagerChoices : RespondOk(bytes, eager)

SegmentSpec == Init /\ [][SegmentNext]_vars

\* the same program with a server that sends one body: prose, then an
\* annotation of another tool with text around it
MixedBodies == { Body(<<"hello", "mixed">>) }

MixedNext ==
    \/ Step
    \/ Submit
    \/ \E bytes \in MixedBodies, eager \in EagerChoices : RespondOk(bytes, eager)

MixedSpec == Init /\ [][MixedNext]_vars

\* the same program in a session of several submissions, with a server that
\* sends one of two bodies of one line: prose; a tool-call annotation
LifecycleBodies == { Body(<<"hello">>), Body(<<"search">>) }

LifecycleNext ==
    \/ Step
    \/ SubmitUpTo(MaxSessions)
    \/ \E bytes \in LifecycleBodies, eager \in EagerChoices : RespondOk(bytes, eager)

LifecycleSpec == Init /\ [][LifecycleNext]_vars

(***************************************************************************)
(* What the current stream has delivered, read off the history variables.  *)
(***************************************************************************)

\* the lines that are not empty
NonEmpty(lines) == SelectSeq(lines, LAMBDA l : l # <<>>)

\* the truthy delta contents of the lines the loop body has run on, in order
Classified == SelectSeq([i \in 1..Len(linesSeen) |-> LineContent(linesSeen[i])], Truthy)

\* every classified content is a string
AllText(es) == \A i \in 1..Len(es) : es[i].t = "str"

\* a content holding a complete `[Calling tool: <text>]` pattern
IsAnnotation(c) == ToolCallMatch(c).found

\* the ToolCall an annotation stands for
ToolRecord(c) ==
    [name        |-> Trim(ToolName(ToolCallMatch(c).text)),
     description |-> Trim(ToolDescription(ToolCallMatch(c).text))]

\* the texts es[from..to] one after the other
RECURSIVE Concat(_, _, _)
Concat(es, from, to) ==
    IF from > to THEN <<>> ELSE es[from].v \o Concat(es, from + 1, to)

\* a step of the model that is a read of a fragment
IsRead == pc = "read" /\ reads' = reads + 1

\* the step ran the loop body on the fragment as if its lines were `kept`
RanAs(kept) ==
    \E st \in {ProcessLines(Handler(lastEager'), kept)} :
        /\ queue' = st.queue
        /\ assistantMessage' = st.acc
        /\ hasSeenToolCalls' = st.flag
        /\ messages' = messages

(***************************************************************************)
(* Properties.                                                             *)
(***************************************************************************)

\* C1: chunk-boundary invariance.  When the whole body has been read, in
\* whatever fragments, the lines the loop body ran on are the lines of the
\* body read as one fragment (empty lines aside): a partial trailing line of
\* a fragment is carried over to the next fragment.
ChunkBoundaryInvariance ==
    (pc = "read" /\ body = <<>>) =>
        NonEmpty(linesSeen) = NonEmpty(Split(Decode(received), NewLine))

\* C2: termination at the sentinel.  A read of a fragment has the effect of
\* its lines up to the first `data: [DONE]` only, and no effect at all once
\* the sentinel has been seen in an earlier fragment.
TerminationAtSentinel ==
    [][IsRead =>
         LET lines == lastLines'
             stops == {i \in 1..Len(lines) : lines[i] = DataPrefix \o DoneSentinel}
         IN  RanAs(IF doneSeen THEN <<>>
                   ELSE IF stops = {} THEN lines
                   ELSE SubSeq(lines, 1, Min(stops) - 1))]_vars

\* C3: segment break.  Once a stream has delivered prose, then a tool-call
\* annotation, then non-blank prose, and React has rendered, the Transcript
\* ends with two assistant Messages: the first holds the earlier prose and
\* the ToolCall, the second exactly the later prose and no ToolCall;
\* hasSeenToolCalls is false and assistantMessage is the later prose.
SegmentBreak ==
    LET es == Classified
        n  == Len(es)
        m  == Len(messages)
    IN  ( /\ pc = "read" /\ queue = <<>>
          /\ n >= 3 /\ AllText(es)
          /\ \A i \in 1..(n - 2) : ~IsAnnotation(es[i].v)
          /\ IsAnnotation(es[n - 1].v)
          /\ ~IsAnnotation(es[n].v) /\ Trim(es[n].v) # <<>> )
        => /\ m >= 2
           /\ messages[m - 1] = [role |-> "assistant",
                                 content |-> Concat(es, 1, n - 2),
                                 toolCalls |-> <<ToolRecord(es[n - 1].v)>>]
           /\ messages[m] = Message("assistant", es[n].v)
           /\ ~hasSeenToolCalls
           /\ assistantMessage = es[n].v

\* the ToolCalls the annotations es[i..] leave on one Message that holds acc:
\* one per distinct (trimmed name, trimmed description) pair, in order
RECURSIVE Recorded(_, _, _)
Recorded(es, i, acc) ==
    IF i > Len(es) THEN acc
    ELSE Recorded(es, i + 1,
                  IF \E j \in 1..Len(acc) : acc[j] = ToolRecord(es[i].v) THEN acc
                  ELSE Append(acc, ToolRecord(es[i].v)))

\* C4: tool-call uniqueness.  No Message holds two ToolCalls with the same
\* (name, description) pair; and once a stream has delivered annotations
\* only and React has rendered, the assistant Message holds one ToolCall for
\* each distinct pair: a repeated annotation is recorded once, annotations
\* whose pairs differ are all recorded.
ToolCallUniqueness ==
    /\ \A k \in 1..Len(messages) :
         \A i, j \in 1..Len(messages[k].toolCalls) :
            i # j => messages[k].toolCalls[i] # messages[k].toolCalls[j]
    /\ ( /\ pc = "read" /\ queue = <<>>
         /\ Classified # <<>> /\ AllText(Classified)
         /\ \A i \in 1..Len(Classified) : IsAnnotation(Classified[i].v) )
       => /\ messages # <<>>
          /\ messages[Len(messages)].toolCalls = Recorded(Classified, 1, <<>>)

\* a line `data: <payload>` whose payload is neither the sentinel nor JSON
Malformed(line) ==
    /\ StartsWith(line, DataPrefix)
    /\ Slice(line, Len(DataPrefix)) # DoneSentinel
    /\ ~JSONParse(Slice(line, Len(DataPrefix))).ok

\* C5: malformed-line tolerance.  A read of a fragment has the effect its
\* lines have with the malformed lines taken out: a malformed line changes
\* neither the Transcript nor assistantMessage nor hasSeenToolCalls, queues
\* no system Message, and the lines after it are processed.
MalformedLineTolerance ==
    [][IsRead => RanAs(SelectSeq(lastLines', LAMBDA l : ~Malformed(l)))]_vars

\* C5 happens: a fragment held a malformed line and a well-formed prose
\* event after it, and the prose of the stream is all in assistantMessage
MalformedLineSkipped ==
    /\ pc = "read"
    /\ \E i, j \in 1..Len(lastLines) :
          /\ i < j
          /\ Malformed(lastLines[i])
          /\ Truthy(LineContent(lastLines[j]))
    /\ Len(Classified) >= 2 /\ AllText(Classified)
    /\ assistantMessage = Concat(Classified, 1, Len(Classified))

\* what the catch of line 184 may be handed
Errors == Thrown \cup {HttpError(status) : status \in ErrorStatuses}

\* C6: transport error handling.  When the response is not ok, or fetch or
\* a read rejects, the handler ends having queued FALSE for the streaming
\* flag, and the Transcript React renders is the one it would have rendered
\* before, every Message of it unchanged, with one system Message carrying
\* the error description appended; after the render isStreaming is false.
TransportErrorHandling ==
    /\ []((outcome = "error" /\ queue = <<>> /\ queuedIsStreaming = <<>>)
            => ~isStreaming)
    /\ [][(pc # "idle" /\ outcome' = "error") =>
            /\ pc' = "idle"
            /\ \E error \in Errors :
                  Settled' = Append(Settled, Message("system", ErrorContent(error)))
            /\ queuedIsStreaming' # <<>>
            /\ queuedIsStreaming'[Len(queuedIsStreaming')] = FALSE]_vars

\* C6 happens: a read failed after prose and a tool call had arrived; the
\* rendered Transcript keeps the assistant Message with both and ends with
\* the system Message, and isStreaming is false
ErrorAfterPartialStream ==
    /\ outcome = "error" /\ reads >= 1 /\ ~isStreaming
    /\ Len(messages) >= 3
    /\ messages[Len(messages)].role = "system"
    /\ messages[Len(messages) - 1].role = "assistant"
    /\ messages[Len(messages) - 1].content # <<>>
    /\ messages[Len(messages) - 1].toolCalls # <<>>

\* a line whose payload is JSON with no string at choices[0].delta.content
NonTextPayload(line) ==
    /\ StartsWith(line, DataPrefix)
    /\ Slice(line, Len(DataPrefix)) # DoneSentinel
    /\ JSONParse(Slice(line, Len(DataPrefix))).ok
    /\ LineContent(line).t # "str"

\* C7: missing or non-string content.  A read of a fragment has the effect
\* its lines have with those taken out whose parsed payload has no string
\* content: such an event changes neither the Transcript nor
\* assistantMessage nor hasSeenToolCalls.
NonTextContentIgnored ==
    [][IsRead => RanAs(SelectSeq(lastLines', LAMBDA l : ~NonTextPayload(l)))]_vars

\* the Transcript before and after each queued update, in the order React
\* runs them at the render
RECURSIVE Steps(_, _, _)
Steps(q, prev, text) ==
    IF q = <<>> THEN <<prev>>
    ELSE <<prev>> \o Steps(Tail(q), RunUpdate(Head(q), prev, text), text)

IsPrefix(a, b) == Len(a) <= Len(b) /\ SubSeq(b, 1, Len(a)) = a

\* from Transcript a to Transcript b nothing changes, or one Message is
\* appended, or the last Message alone has its content extended or one
\* ToolCall appended
LastOnly(a, b) ==
    \/ b = a
    \/ Len(b) = Len(a) + 1 /\ SubSeq(b, 1, Len(a)) = a
    \/ /\ Len(b) = Len(a) /\ a # <<>>
       /\ \A i \in 1..(Len(a) - 1) : b[i] = a[i]
       /\ b[Len(a)].role = a[Len(a)].role
       /\ \/ /\ b[Len(a)].toolCalls = a[Len(a)].toolCalls
             /\ IsPrefix(a[Len(a)].content, b[Len(a)].content)
          \/ /\ b[Len(a)].content = a[Len(a)].content
             /\ Len(b[Len(a)].toolCalls) = Len(a[Len(a)].toolCalls) + 1
             /\ IsPrefix(a[Len(a)].toolCalls, b[Len(a)].toolCalls)

\* C8: the Transcript is append-ordered and only its last element is
\* mutable.  Every update the handler hands to React, run in its turn,
\* appends one Message, or extends the content of the last Message, or
\* appends a ToolCall to the last Message; the Messages before the last
\* keep their place, role, content and toolCalls.
LastElementOnly ==
    \A i \in 1..Len(queue) :
        LastOnly(Steps(queue, messages, assistantMessage)[i],
                 Steps(queue, messages, assistantMessage)[i + 1])

\* the string contents among the classified contents
Texts == SelectSeq(Classified, LAMBDA e : e.t = "str")

\* C9: hasSeenToolCalls is true exactly when a tool-call annotation has been
\* classified in the current stream and no prose that ends the wait (prose
\* that is not blank) has been classified after it; so it is false at stream
\* start, true after an annotation, false after the prose that follows it.
AwaitingAfterAnnotation ==
    pc = "read" =>
        (hasSeenToolCalls <=>
            \E i \in 1..Len(Texts) :
                /\ IsAnnotation(Texts[i].v)
                /\ \A j \in (i + 1)..Len(Texts) :
                      IsAnnotation(Texts[j].v) \/ Trim(Texts[j].v) = <<>>)

\* C10: classification as prose.  While every content of the stream has
\* been a string with no complete `[Calling tool: <text>]` pattern, each has
\* been appended as prose: assistantMessage is the contents one after the
\* other, hasSeenToolCalls is false, and once React has rendered the
\* Transcript ends with the assistant Message holding that text and no
\* ToolCall.
ProseClassification ==
    ( /\ pc = "read"
      /\ Classified # <<>> /\ AllText(Classified)
      /\ \A i \in 1..Len(Classified) : ~IsAnnotation(Classified[i].v) )
    => /\ ~hasSeenToolCalls
       /\ assistantMessage = Concat(Classified, 1, Len(Classified))
       /\ queue = <<>> =>
             /\ messages # <<>>
             /\ messages[Len(messages)] =
                   Message("assistant", Concat(Classified, 1, Len(Classified)))


\* C11: tool-call extraction.  For every annotation the stream has
\* delivered, with <text> the text of its pattern: toolName is the text
\* before the first " - " and toolDescription all the text after it; when
\* <text> holds no " - ", toolName is <text> and toolDescription is
\* "Running...", and in no other case is it that literal put in by the code.
ToolCallExtraction ==
    \A i \in 1..Len(Texts) :
        IsAnnotation(Texts[i].v) =>
            LET text == ToolCallMatch(Texts[i].v).text
                at   == IndexOf(text, Dash)
            IN  IF at = 0
                THEN /\ ToolName(text) = text
                     /\ ToolDescription(text) = Running
                ELSE /\ ToolName(text) = SubSeq(text, 1, at - 1)
                     /\ ToolDescription(text) = SubSeq(text, at + Len(Dash), Len(text))


\* C12: a line is decoded only after its newline.  A read of a fragment has
\* the effect of the lines of the fragment that end with a newline: the text
\* after the last newline of the fragment is not decoded on its own, so a
\* last event of the body that lacks its newline changes nothing.
UnterminatedNotDecoded ==
    [][IsRead => RanAs(SubSeq(lastLines', 1, Len(lastLines') - 1))]_vars


\* the Transcript after the Messages `before` when a body of these bytes is
\* read as one fragment and React renders when the stream has ended
OneFragmentTranscript(before, bytes) ==
    With(ProcessFragment([acc |-> <<>>, flag |-> FALSE, msgs |-> before,
                          queue |-> <<UAppend(Message("assistant", <<>>))>>,
                          eager |-> FALSE],
                         Decode(bytes)),
         LAMBDA st : RunQueue(st.queue, before, st.acc))

\* the Transcript up to the user Message of the last submission
UpToLastUser ==
    SubSeq(messages, 1, Max({0} \cup {i \in 1..Len(messages) : messages[i].role = "user"}))

\* C13: determinism.  When a stream has ended and React has rendered, the
\* Transcript is the one that the bytes received give when they arrive as
\* one fragment: it depends on the bytes alone, not on their fragmentation.
Determinism ==
    ( /\ outcome = "done" /\ pc = "idle"
      /\ queue = <<>> /\ queuedIsStreaming = <<>>
      /\ messages # <<>> )
    => messages = OneFragmentTranscript(UpToLastUser, received)


\* the number of Messages of a role in a Transcript
CountRole(msgs, role) == Cardinality({i \in 1..Len(msgs) : msgs[i].role = role})

\* C14: single stream in flight.  A handler runs, or has updates pending,
\* only while isStreaming is true; and from a state where isStreaming is true
\* or the research idea is blank no step accepts a submission: no user
\* Message is appended, no request is sent, no handler starts.
SingleStreamInFlight ==
    [][ /\ ~isStreaming => pc = "idle" /\ queue = <<>>
        /\ (isStreaming \/ Trim(settings.researchIdea) = <<>>) =>
              /\ submits' = submits
              /\ CountRole(messages', "user") <= CountRole(messages, "user")
              /\ pc' = "fetch" => pc = "fetch" ]_vars

\* a stream is in flight, the idea is not blank and the session could take
\* another submission
SubmitDuringStream ==
    /\ isStreaming /\ pc = "read" /\ received # <<>>
    /\ Trim(settings.researchIdea) # <<>>
    /\ submits < MaxSessions


\* the step ends a handler in the catch block of lines 184-190
StreamFails == pc # "idle" /\ pc' = "idle" /\ outcome' = "error"

\* the step is handleClear
IsClear == messages # <<>> /\ messages' = <<>>

\* C15: system Messages are created only on failure, one per failed stream.
\* Before the first submission the Transcript holds none; a clear leaves
\* none; a step that ends a stream in failure adds exactly one to the
\* Transcript React will show; every other step, the end of a stream without
\* a transport error included, leaves their number as it is.  So their
\* number is the number of failed streams since the last clear.
SystemMessagePerFailure ==
    [][ /\ submits = 0 => CountRole(Settled, "system") = 0
        /\ IF IsClear
           THEN CountRole(Settled', "system") = 0
           ELSE CountRole(Settled', "system") =
                    CountRole(Settled, "system") + (IF StreamFails THEN 1 ELSE 0) ]_vars

\* two streams since the last clear, the first failed and the second ended
\* without a transport error: one system Message
OneFailedOneCompleted ==
    /\ submits = 2 /\ outcome = "done" /\ ~isStreaming
    /\ CountRole(messages, "user") = 2
    /\ CountRole(messages, "system") = 1


\* C16: monotone content.  A step that leaves an assistant Message in the
\* Transcript leaves it a content of which its previous content is a prefix.
MonotoneContent ==
    [][ \A i \in 1..Len(messages) :
            (i <= Len(messages') /\ messages[i].role = "assistant") =>
                /\ messages'[i].role = "assistant"
                /\ IsPrefix(messages[i].content, messages'[i].content) ]_vars


\* C17: no deletion except clear.  A step that shortens the Transcript
\* empties it, and is taken only when isStreaming is false, no handler runs
\* and no update is pending, so that nothing of a stream is applied after it;
\* every other step keeps every Message at its place with its role, and
\* keeps user and system Messages as they are.
NoDeletionExceptClear ==
    [][ IF Len(messages') < Len(messages)
        THEN /\ messages' = <<>>
             /\ ~isStreaming /\ pc = "idle" /\ queue = <<>>
             /\ Settled' = <<>>
        ELSE \A i \in 1..Len(messages) :
                /\ messages'[i].role = messages[i].role
                /\ messages[i].role # "assistant" => messages'[i] = messages[i] ]_vars

\* a second stream is being read after a clear: the Transcript holds the
\* Messages of that stream alone
StreamAfterClear ==
    /\ submits = 2 /\ pc = "read" /\ received # <<>>
    /\ CountRole(messages, "user") = 1


\* the handler states the loop body goes through on `lines` from state st:
\* st, then the state after each line
RECURSIVE HandlerStates(_, _)
HandlerStates(st, lines) ==
    IF lines = <<>> THEN <<st>>
    ELSE With(ProcessLine(st, Head(lines)), LAMBDA after :
           With(Tail(lines), LAMBDA rest : <<st>> \o HandlerStates(after, rest)))

\* Holds(before, after, line) of every line of the fragment the step reads
EveryLine(Holds(_, _, _)) ==
    With(HandlerStates(Handler(lastEager'), lastLines'), LAMBDA sts :
        \A k \in 1..Len(lastLines') : Holds(sts[k], sts[k + 1], lastLines'[k]))

\* in handler state st, the last Message of the Transcript React will show
\* is an assistant Message whose content is the accumulated text
LastContentIs(st) ==
    With(RunQueue(st.queue, messages, st.acc), LAMBDA shown :
        /\ shown # <<>>
        /\ shown[Len(shown)].role = "assistant"
        /\ shown[Len(shown)].content = st.acc)

\* C18: content equals accumulated text.  While the read loop of a stream
\* runs, at the start and after every line processed, the content of the
\* last assistant Message (once React has run the queued updates) is
\* assistantMessage in full; and a line of text classified as a tool-call
\* annotation leaves assistantMessage as it is, prose that is not blank
\* after an annotation makes it the new chunk, any other prose extends it
\* by the chunk.
ContentEqualsAccumulated ==
    [][ /\ pc = "read" => LastContentIs(Handler(FALSE))
        /\ IsRead => EveryLine(
              LAMBDA before, after, line :
                With(LineContent(line), LAMBDA value :
                    /\ LastContentIs(after)
                    /\ (Truthy(value) /\ value.t = "str") =>
                          after.acc =
                              IF Includes(value.v, ToolMarker) THEN before.acc
                              ELSE IF before.flag /\ Trim(value.v) # <<>>
                                   THEN value.v
                                   ELSE before.acc \o value.v)) ]_vars

\* after a segment break both the last Message and assistantMessage hold
\* the new chunk
BothHoldNewChunk ==
    /\ pc = "read" /\ queue = <<>>
    /\ assistantMessage = TextResult
    /\ Len(messages) = 3
    /\ messages[2].toolCalls # <<>>
    /\ messages[3].content = TextResult


\* C19: blank prose while awaiting.  A line whose content is a string of
\* white space only, without the tool marker, processed while
\* hasSeenToolCalls is true, appends no Message: the chunk is appended to
\* assistantMessage, the Transcript React will show has the Messages it had
\* with that text as the content of the last one, and hasSeenToolCalls stays
\* true.
BlankProseWhileAwaiting ==
    [][ IsRead => EveryLine(
          LAMBDA before, after, line :
            With(LineContent(line), LAMBDA value :
                ( /\ value.t = "str" /\ value.v # <<>> /\ Trim(value.v) = <<>>
                  /\ before.flag ) =>
                    /\ after.flag
                    /\ after.acc = before.acc \o value.v
                    /\ RunQueue(after.queue, messages, after.acc) =
                         WriteContent(RunQueue(before.queue, messages, after.acc),
                                      after.acc))) ]_vars

\* blank prose has arrived after a tool-call annotation: the Message that
\* holds the ToolCall has the blank as its content, and the stream still
\* awaits a new segment
BlankWrittenWhileAwaiting ==
    /\ pc = "read" /\ queue = <<>> /\ hasSeenToolCalls
    /\ assistantMessage = TextBlank
    /\ Len(messages) = 2
    /\ messages[2].toolCalls # <<>>
    /\ messages[2].content = TextBlank


\* a content that holds the tool marker and is not one annotation alone
IsMixed(c) ==
    /\ Includes(c, ToolMarker)
    /\ With(ToolCallMatch(c), LAMBDA m :
          ~(m.found /\ c = ToolOpen \o m.text \o <<"]">>))

\* Transcript b is Transcript a, but for the ToolCalls of its last Message,
\* which are those of a with at most the ToolCall of the first annotation of
\* content c appended
SameButToolCall(a, b, c) ==
    /\ Len(b) = Len(a)
    /\ \A i \in 1..Len(a) :
          /\ b[i].role = a[i].role
          /\ b[i].content = a[i].content
          /\ i < Len(a) => b[i] = a[i]
    /\ a # <<>> =>
          With(ToolCallMatch(c), LAMBDA m :
             \/ b[Len(a)].toolCalls = a[Len(a)].toolCalls
             \/ /\ m.found
                /\ b[Len(a)].toolCalls =
                       Append(a[Len(a)].toolCalls,
                              [name        |-> Trim(ToolName(m.text)),
                               description |-> Trim(ToolDescription(m.text))]))

\* C20: mixed chunk.  A line whose content is a string that holds the tool
\* marker together with other text leaves assistantMessage as it is, and
\* leaves the Transcript React will show with the Messages it had, their
\* contents and roles unchanged; at most the ToolCall of the first
\* annotation is appended to the last Message.
MixedChunkIsToolCallOnly ==
    [][ IsRead => EveryLine(
          LAMBDA before, after, line :
            With(LineContent(line), LAMBDA value :
                (value.t = "str" /\ IsMixed(value.v)) =>
                    /\ after.acc = before.acc
                    /\ SameButToolCall(RunQueue(before.queue, messages, before.acc),
                                       RunQueue(after.queue, messages, after.acc),
                                       value.v))) ]_vars

\* the mixed chunk has arrived after prose: the Message keeps the prose as
\* its content and holds the ToolCall of the annotation
MixedChunkTaken ==
    /\ pc = "read" /\ queue = <<>> /\ body = <<>>
    /\ received = Body(<<"hello", "mixed">>)
    /\ assistantMessage = TextHello
    /\ Len(messages) = 2
    /\ messages[2].content = TextHello
    /\ Len(messages[2].toolCalls) = 1


\* the current stream has reached a completion: the `[DONE]` sentinel has
\* been read, or the handler has ended (end of the transport, an error, a
\* response without a body)
Completed == submits > 0 /\ (doneSeen \/ outcome # "none")

\* C21: streaming status follows the stream.  From an accepted submission
\* until the stream reaches a completion isStreaming is true; once it has
\* reached one and React has applied the pending updates, isStreaming is
\* false, which is what the guard of a new submission asks for.
StreamingFollowsStream ==
    /\ (submits > 0 /\ ~Completed) => isStreaming
    /\ (Completed /\ queue = <<>> /\ queuedIsStreaming = <<>>) => ~isStreaming

\* the same with the completions the handler itself takes: the end of the
\* transport, an error, a response without a body
StreamingFollowsHandler ==
    /\ (submits > 0 /\ outcome = "none") => isStreaming
    /\ (outcome # "none" /\ queue = <<>> /\ queuedIsStreaming = <<>>) => ~isStreaming


\* the place of the user Message of the last submission in a Transcript
LastUser(msgs) == Max({0} \cup {i \in 1..Len(msgs) : msgs[i].role = "user"})

\* C22: lifecycle order of a submission.  An accepted submission appends the
\* user Message and leaves the handler before its request; the arrival of an
\* ok response with a body appends an assistant Message with empty content
\* and no ToolCall before anything is read; and no step but a clear changes
\* a Message up to the user Message of the last submission, now or when
\* React runs the queued updates: what a stream changes is a Message that
\* stream has appended.
LifecycleOrder ==
    [][ /\ submits' # submits =>
              /\ messages' = Append(messages, Message("user", UserContent(settings)))
              /\ pc = "idle" /\ pc' = "fetch"
        /\ (pc = "fetch" /\ pc' = "read") =>
              /\ Settled' = Append(Settled, Message("assistant", <<>>))
              /\ Settled'[Len(Settled')].content = <<>>
              /\ Settled'[Len(Settled')].toolCalls = <<>>
              /\ received' = <<>> /\ linesSeen' = <<>>
        /\ ~IsClear =>
              \A i \in 1..LastUser(messages) :
                  /\ messages'[i] = messages[i]
                  /\ Settled'[i] = messages[i] ]_vars

\* a second stream has put its ToolCall on its own assistant Message, while
\* the assistant Message of the first submission is as that stream left it
SecondStreamOnOwnMessage ==
    /\ submits = 2 /\ queue = <<>>
    /\ Len(messages) = 4
    /\ messages[2].role = "assistant"
    /\ messages[2].content = TextHello /\ messages[2].toolCalls = <<>>
    /\ messages[3].role = "user"
    /\ messages[4].role = "assistant"
    /\ messages[4].content = <<>> /\ Len(messages[4].toolCalls) = 1

=============================================================================
